---- MODULE Spec2Model ----
(***************************************************************************)
(* Model of transcribe_audio.py (Voicepal AI Thought Explorer):            *)
(*   - the two provider calls call_gemini_api_structured and               *)
(*     call_gemini_api_debate (retry loop with backoff),                    *)
(*   - the VoicepalApp session state and its handlers, run on the Tk       *)
(*     control thread, the worker threads they start and the callbacks     *)
(*     the workers hand back through master.after,                         *)
(*   - background listening and the audio queue.                           *)
(*                                                                         *)
(* Specifications:                                                         *)
(*   ClientSpec  one provider call, as a function of what the provider     *)
(*               answers to each attempt;                                  *)
(*   Spec        the application; a worker's provider call takes any       *)
(*               outcome the client function can produce;                  *)
(*   SpeechSpec  dictation with every status of the speech callback;       *)
(*   FairSpec, FairSpeechSpec                                              *)
(*               Spec and SpeechSpec under fair scheduling of the worker   *)
(*               threads and of the Tk event loop.                         *)
(***************************************************************************)
EXTENDS Integers, Sequences, FiniteSets, Bags, TLC

VARIABLES
    \* ---- configuration
    API_KEY,
    \* ---- VoicepalApp: conversation state
    selected_question, current_step_data, conversation_history, current_step,
    \* ---- VoicepalApp: debate state
    is_debating, debate_history,
    \* ---- VoicepalApp: widgets
    input_text, process_state, process_command, confirm_state, blog_state,
    debate_state, debate_command, record_state, action_frame_shown,
    guided_buttons_gridded, questions_shown, question_widgets, loading_active,
    \* ---- speech recognition
    is_recording, audio_queue, drains,
    \* ---- threads and the Tk event queue
    workers, after_queue,
    \* ---- observation: the message box the last step ended with ("": none)
    dialog,
    \* ---- one provider call (ClientSpec)
    cl_kind, cl_outs, cl_result

sessionVars == <<selected_question, current_step_data, conversation_history,
                 current_step, is_debating, debate_history>>
widgetVars == <<input_text, process_state, process_command, confirm_state,
                blog_state, debate_state, debate_command, record_state,
                action_frame_shown, guided_buttons_gridded, questions_shown,
                question_widgets, loading_active>>
speechVars == <<is_recording, audio_queue, drains>>
threadVars == <<workers, after_queue>>
clientVars == <<cl_kind, cl_outs, cl_result>>
vars == <<API_KEY, sessionVars, widgetVars, speechVars, threadVars, dialog,
          clientVars>>

(***************************************************************************)
(* Bounds of the model                                                     *)
(***************************************************************************)
\* requests dispatched and not yet completed that the model follows at once
MaxInFlight == 2
\* confirmed steps the model follows (confirm_focus is disabled beyond)
MaxSteps == 2
\* speech results waiting in audio_queue
MaxAudio == 1

(***************************************************************************)
(* Python values: None, str, and what json.loads can return                *)
(***************************************************************************)
Missing == "<missing>"
NoQuestions == <<>>

PyNone == [type |-> "None", str |-> "", corrected_text |-> Missing,
           challenge_questions |-> NoQuestions, has_questions |-> FALSE]
PyStr(s) == [type |-> "str", str |-> s, corrected_text |-> Missing,
             challenge_questions |-> NoQuestions, has_questions |-> FALSE]
PyDict(text, hasq, qs) == [type |-> "dict", str |-> "", corrected_text |-> text,
                           challenge_questions |-> qs, has_questions |-> hasq]

\* bool(v)
Truthy(v) ==
    CASE v.type = "None" -> FALSE
      [] v.type = "str"  -> v.str # ""
      [] v.type = "dict" -> v.corrected_text # Missing \/ v.has_questions

\* d.get("corrected_text", default); None is written Missing when default is None
GetText(d, default) == IF d.corrected_text = Missing THEN default ELSE d.corrected_text
\* d.get("challenge_questions", [])
GetQuestions(d) == IF d.has_questions THEN d.challenge_questions ELSE NoQuestions

(***************************************************************************)
(* The provider: what one attempt (one requests.post) can meet             *)
(***************************************************************************)
ThreeQuestions == <<"q1", "q2", "q3">>

\* the text part of a response that carries one, by name
PayloadNames == {"ok", "partial", "emptydict"}
\* json.loads(json_text) for a text that is valid JSON
JsonLoads(p) ==
    CASE p = "ok"        -> PyDict("X", TRUE, ThreeQuestions)
      [] p = "partial"   -> PyDict(Missing, TRUE, <<"q1">>)
      [] p = "emptydict" -> PyDict(Missing, FALSE, NoQuestions)

\* "transport": requests.post raises a RequestException
\* "status"   : raise_for_status raises HTTPError (a RequestException)
\* "shape"    : the body is JSON without the expected nesting (candidates == []):
\*              the [0] raises IndexError, which the loop does not catch
\* "notext"   : the part has no text, or an empty one
\* "badjson"  : the text is not valid JSON
AttemptOutcomes == {"transport", "status", "shape", "notext", "badjson"} \cup PayloadNames
\* the outcomes the except clause catches for either call
Caught == {"transport", "status"}

(***************************************************************************)
(* call_gemini_api_structured / call_gemini_api_debate                     *)
(***************************************************************************)
max_retries == 5

Request(attempt) == [e |-> "request", n |-> attempt]
Sleep(t) == [e |-> "sleep", n |-> t]

Returned(v, trace) == [tag |-> "return", val |-> v, exc |-> "", trace |-> trace]
Raised(x, trace) == [tag |-> "raise", val |-> PyNone, exc |-> x, trace |-> trace]
NotCalled == [tag |-> "notcalled", val |-> PyNone, exc |-> "", trace |-> <<>>]

\* a backoff that grows by a fixed step: wait_time = 2 * attempt
wait_time_linear(attempt) == 2 * attempt

\* wait_time = 2 ** attempt
wait_time(attempt) == 2 ^ attempt

\* one pass of "for attempt in range(max_retries)" of call_gemini_api_structured,
\* outs[attempt + 1] being what the provider answers to this attempt
RECURSIVE structured_loop(_, _, _)
structured_loop(outs, attempt, trace) ==
    IF attempt >= max_retries
    THEN Returned(PyNone, trace)
    ELSE LET o == outs[attempt + 1]
             tr == Append(trace, Request(attempt))
         IN CASE o \in Caught \cup {"badjson"} ->
                     structured_loop(outs, attempt + 1,
                                     Append(tr, Sleep(wait_time(attempt))))
              [] o = "shape"  -> Raised("IndexError", tr)
              [] o = "notext" -> Returned(PyNone, tr)
              [] OTHER        -> Returned(JsonLoads(o), tr)

\* the same for call_gemini_api_debate: the text of the part is returned as it is
RECURSIVE debate_loop(_, _, _)
debate_loop(outs, attempt, trace) ==
    IF attempt >= max_retries
    THEN Returned(PyNone, trace)
    ELSE LET o == outs[attempt + 1]
             tr == Append(trace, Request(attempt))
         IN CASE o \in Caught ->
                     debate_loop(outs, attempt + 1,
                                 Append(tr, Sleep(wait_time(attempt))))
              [] o = "shape"  -> Raised("IndexError", tr)
              [] o = "notext" -> Returned(PyNone, tr)
              [] OTHER        -> Returned(PyStr("R"), tr)

\* the call without "if not API_KEY: raise ValueError"
call_gemini_api_structured_unchecked(key, outs) == structured_loop(outs, 0, <<>>)

call_gemini_api_structured(key, outs) ==
    IF key = "" THEN Raised("ValueError", <<>>) ELSE structured_loop(outs, 0, <<>>)

call_gemini_api_debate(key, outs) ==
    IF key = "" THEN Raised("ValueError", <<>>) ELSE debate_loop(outs, 0, <<>>)

\* what the provider answers to the attempts of one call
OutcomeSeqs == [1..max_retries -> AttemptOutcomes]


\* what a call returns or raises, without its trace of requests and sleeps
Outcome(r) == [tag |-> r.tag, val |-> r.val, exc |-> r.exc]
StructuredOutcomesWithKey ==
    {Outcome(call_gemini_api_structured("k", o)) : o \in OutcomeSeqs}
DebateOutcomesWithKey ==
    {Outcome(call_gemini_api_debate("k", o)) : o \in OutcomeSeqs}
StructuredOutcomes(key) ==
    IF key = "" THEN {Outcome(call_gemini_api_structured(key, <<>>))}
    ELSE StructuredOutcomesWithKey
DebateOutcomes(key) ==
    IF key = "" THEN {Outcome(call_gemini_api_debate(key, <<>>))}
    ELSE DebateOutcomesWithKey

(***************************************************************************)
(* Texts                                                                   *)
(***************************************************************************)
\* the text inserted at construction (line 283)
SampleText == "I think, uh, maybe all people should ..."
NewThoughtPlaceholder == "Start a new thought here..."
ResponsePlaceholder == "Enter your response here..."
CounterPlaceholder == "Enter your counter-argument here..."
\* what the user types: a thought, with blanks around it
Typed == " T "
TypedTexts == {Typed}
ConfigFailText == "Debate turn failed due to configuration error."
RetryFailText ==
    "AI failed to generate a rebuttal after multiple retries. Try ending and restarting the debate."

\* str.strip()
Strip(s) == IF s = Typed THEN "T" ELSE s
\* s.startswith(p): no text of the model is a placeholder with more behind it
StartsWith(s, p) == s = p

NORMAL == "normal"
DISABLED == "disabled"
None == "None"

(***************************************************************************)
(* VoicepalApp.__init__                                                    *)
(***************************************************************************)
AppInit ==
    /\ selected_question = None
    /\ current_step_data = PyNone
    /\ conversation_history = <<>>
    /\ current_step = 1
    /\ is_debating = FALSE
    /\ debate_history = <<>>
    /\ input_text = SampleText
    /\ process_state = NORMAL
    /\ process_command = "process_input_threaded"
    /\ confirm_state = DISABLED
    /\ blog_state = DISABLED
    /\ debate_state = DISABLED
    /\ debate_command = "start_debate_mode"
    /\ record_state = NORMAL
    /\ action_frame_shown = FALSE
    /\ guided_buttons_gridded = TRUE
    /\ questions_shown = FALSE
    /\ question_widgets = <<>>
    /\ loading_active = FALSE
    /\ is_recording = FALSE
    /\ audio_queue = <<>>
    /\ drains = 0
    /\ workers = EmptyBag
    /\ after_queue = <<>>
    /\ dialog = ""

\* API_KEY is the deployment's configuration (line 12 leaves it empty, to be loaded)
Init ==
    /\ API_KEY \in {"", "k"}
    /\ AppInit
    /\ cl_kind = "none"
    /\ cl_outs = [i \in 1..max_retries |-> "transport"]
    /\ cl_result = NotCalled

(***************************************************************************)
(* ClientSpec: one provider call                                           *)
(***************************************************************************)
ClientInit ==
    /\ API_KEY \in {"", "k"}
    /\ AppInit
    /\ cl_kind \in {"structured", "chat"}
    /\ cl_outs \in OutcomeSeqs
    /\ cl_result = NotCalled

ClientCallStructured ==
    /\ cl_kind = "structured"
    /\ cl_result = NotCalled
    /\ cl_result' = call_gemini_api_structured(API_KEY, cl_outs)
    /\ UNCHANGED <<API_KEY, sessionVars, widgetVars, speechVars, threadVars, dialog,
                   cl_kind, cl_outs>>

ClientCallDebate ==
    /\ cl_kind = "chat"
    /\ cl_result = NotCalled
    /\ cl_result' = call_gemini_api_debate(API_KEY, cl_outs)
    /\ UNCHANGED <<API_KEY, sessionVars, widgetVars, speechVars, threadVars, dialog,
                   cl_kind, cl_outs>>

ClientNext == ClientCallStructured \/ ClientCallDebate

ClientSpec == ClientInit /\ [][ClientNext]_vars

(***************************************************************************)
(* Threads                                                                 *)
(***************************************************************************)
\* a worker thread: target kind, where it stands, what its provider call gave
Worker(kind) == [kind |-> kind, pc |-> "call", text |-> ""]
\* a callback handed to the control thread by master.after(0, ...); api_error says
\* that messagebox.showerror("API Error", ...) was scheduled just before it
Callback(fn, val, api_error) == [fn |-> fn, val |-> val, api_error |-> api_error]

\* requests dispatched whose completion has not yet run on the control thread
InFlight == BagCardinality(workers) + Len(after_queue)

\* the threads started and not yet ended; threads are not ordered
Started(w) == workers (+) SetToBag({w})
Ended(w) == workers (-) SetToBag({w})

Turn(role, text) == [role |-> role, text |-> text]

\* Every step leaves the configuration and ClientSpec's variables alone
Frame == UNCHANGED <<API_KEY, clientVars>>

(***************************************************************************)
(* The input text is read by the two handlers of the Process button only.  *)
(* The user may have edited it just before the click: typed is what was    *)
(* typed, or Untouched when the text is as the program left it.            *)
(***************************************************************************)
Untouched == "<untouched>"
Edited(typed) == IF typed = Untouched THEN input_text ELSE typed

(***************************************************************************)
(* Speech: record_input_toggle, speech_callback,                           *)
(* process_transcription_from_queue                                        *)
(***************************************************************************)
record_input_toggle ==
    /\ record_state = NORMAL
    /\ IF ~is_recording
       THEN \* listen_in_background starts the listener thread
            /\ is_recording' = TRUE
            /\ input_text' = ""
            /\ process_state' = DISABLED
       ELSE \* stop_listening(wait_for_stop=False)
            /\ is_recording' = FALSE
            /\ UNCHANGED <<input_text, process_state>>
    /\ dialog' = ""
    /\ UNCHANGED <<sessionVars, process_command, confirm_state, blog_state,
                   debate_state, debate_command, record_state, action_frame_shown,
                   guided_buttons_gridded, questions_shown, question_widgets,
                   loading_active, audio_queue, drains, threadVars>>
    /\ Frame

\* the four statuses speech_callback can put (lines 397-405)
SpeechStatuses == {"SUCCESS", "UNKNOWN", "ERROR_REQUEST", "ERROR_GENERAL"}
\* Spec follows the phrases that are recognised; SpeechSpec follows all statuses
Recognised == {"SUCCESS"}

\* speech_callback without line 405: the result is put, no drain is scheduled
speech_callback_no_drain(status) ==
    /\ is_recording
    /\ Len(audio_queue) < MaxAudio
    /\ audio_queue' = Append(audio_queue, status)
    /\ drains' = drains
    /\ dialog' = ""
    /\ UNCHANGED <<sessionVars, widgetVars, is_recording, threadVars>>
    /\ Frame

\* speech_callback, on the listener thread, for a phrase heard while listening:
\* audio_queue.put(...) and master.after(100, process_transcription_from_queue)
speech_callback(status) ==
    /\ is_recording
    /\ Len(audio_queue) < MaxAudio
    /\ audio_queue' = Append(audio_queue, status)
    /\ drains' = drains + 1
    /\ dialog' = ""
    /\ UNCHANGED <<sessionVars, widgetVars, is_recording, threadVars>>
    /\ Frame

process_transcription_from_queue ==
    /\ drains > 0
    /\ drains' = drains - 1
    /\ process_state' = NORMAL
    /\ IF audio_queue = <<>>
       THEN /\ dialog' = ""
            /\ UNCHANGED <<audio_queue, input_text, loading_active>>
       ELSE /\ audio_queue' = Tail(audio_queue)
            /\ loading_active' = FALSE
            /\ input_text' = IF Head(audio_queue) = "SUCCESS" THEN "T" ELSE input_text
            /\ dialog' = CASE Head(audio_queue) = "SUCCESS"       -> ""
                           [] Head(audio_queue) = "UNKNOWN"       -> "Error"
                           [] Head(audio_queue) = "ERROR_REQUEST" -> "STT Error"
                           [] OTHER                               -> "Error"
    /\ UNCHANGED <<sessionVars, process_command, confirm_state, blog_state,
                   debate_state, debate_command, record_state, action_frame_shown,
                   guided_buttons_gridded, questions_shown, question_widgets,
                   is_recording, threadVars>>
    /\ Frame

(***************************************************************************)
(* Shared: set_buttons_state(tk.DISABLED) and start_loading_animation,     *)
(* then threading.Thread(...).start()                                      *)
(***************************************************************************)
Dispatch(w) ==
    /\ InFlight < MaxInFlight
    /\ process_state' = DISABLED
    /\ confirm_state' = DISABLED
    /\ blog_state' = DISABLED
    /\ debate_state' = DISABLED
    \* while recording the record button is left as it is, so that it can stop
    /\ record_state' = IF is_recording THEN record_state ELSE DISABLED
    /\ loading_active' = TRUE
    /\ workers' = Started(w)

(***************************************************************************)
(* Guided mode                                                             *)
(***************************************************************************)
\* a selection that does not come from a card: any text is taken
select_question_any_text(question_text) ==
    /\ questions_shown
    /\ selected_question' = question_text
    /\ confirm_state' = NORMAL
    /\ dialog' = ""
    /\ UNCHANGED <<current_step_data, conversation_history, current_step,
                   is_debating, debate_history, input_text, process_state,
                   process_command, blog_state, debate_state, debate_command,
                   record_state, action_frame_shown, guided_buttons_gridded,
                   questions_shown, question_widgets, loading_active, speechVars,
                   threadVars>>
    /\ Frame

\* a click on one of the question cards
select_question(question_text) ==
    /\ questions_shown
    /\ \E i \in 1..Len(question_widgets) : question_widgets[i] = question_text
    /\ selected_question' = question_text
    /\ confirm_state' = NORMAL
    /\ dialog' = ""
    /\ UNCHANGED <<current_step_data, conversation_history, current_step,
                   is_debating, debate_history, input_text, process_state,
                   process_command, blog_state, debate_state, debate_command,
                   record_state, action_frame_shown, guided_buttons_gridded,
                   questions_shown, question_widgets, loading_active, speechVars,
                   threadVars>>
    /\ Frame

\* a guard that looks at the pending result only: not self.current_step_data
confirm_incomplete_pending_only == ~Truthy(current_step_data)

\* line 556: not self.selected_question or not self.current_step_data
confirm_incomplete == selected_question = None \/ ~Truthy(current_step_data)

\* the append without "self.current_step += 1"
confirm_append_keeps_step ==
    /\ conversation_history' = Append(conversation_history,
           [step |-> current_step,
            thought |-> GetText(current_step_data, "N/A"),
            focus_question |-> selected_question])
    /\ current_step' = current_step

\* the confirmed step replaces what was confirmed before
confirm_append_rewrites ==
    /\ conversation_history' =
           <<[step |-> current_step,
              thought |-> GetText(current_step_data, "N/A"),
              focus_question |-> selected_question]>>
    /\ current_step' = current_step + 1

\* the confirmed step numbered from the length of the history
confirm_append_from_zero ==
    /\ conversation_history' = Append(conversation_history,
           [step |-> Len(conversation_history),
            thought |-> GetText(current_step_data, "N/A"),
            focus_question |-> selected_question])
    /\ current_step' = current_step + 1

\* lines 561-566
confirm_append ==
    /\ conversation_history' = Append(conversation_history,
           [step |-> current_step,
            thought |-> GetText(current_step_data, "N/A"),
            focus_question |-> selected_question])
    /\ current_step' = current_step + 1

\* the Confirm button
confirm_focus ==
    /\ confirm_state = NORMAL
    /\ action_frame_shown
    /\ guided_buttons_gridded
    /\ IF confirm_incomplete
       THEN /\ dialog' = "Incomplete Data"
            /\ UNCHANGED <<sessionVars, widgetVars>>
       ELSE /\ current_step <= MaxSteps
            /\ confirm_append
            /\ input_text' = ResponsePlaceholder
            /\ question_widgets' = <<>>
            /\ questions_shown' = FALSE
            /\ action_frame_shown' = FALSE
            /\ selected_question' = None
            /\ current_step_data' = PyNone
            /\ loading_active' = FALSE
            /\ debate_state' = NORMAL
            /\ blog_state' = NORMAL
            /\ dialog' = ""
            /\ UNCHANGED <<is_debating, debate_history, process_state,
                           process_command, confirm_state, debate_command,
                           record_state, guided_buttons_gridded>>
    /\ UNCHANGED <<speechVars, threadVars>>
    /\ Frame

\* the guard without the test for "Enter your response here..."
process_rejects_two_placeholders(raw_text) ==
    \/ raw_text = ""
    \/ StartsWith(raw_text, NewThoughtPlaceholder)
    \/ StartsWith(raw_text, CounterPlaceholder)

\* line 789: the text is empty or begins with one of the placeholders
process_rejects(raw_text) ==
    \/ raw_text = ""
    \/ StartsWith(raw_text, NewThoughtPlaceholder)
    \/ StartsWith(raw_text, ResponsePlaceholder)
    \/ StartsWith(raw_text, CounterPlaceholder)

\* the Process button, in guided mode
process_input_threaded(typed) ==
    /\ process_state = NORMAL
    /\ process_command = "process_input_threaded"
    /\ input_text' = Edited(typed)
    /\ IF process_rejects(Strip(Edited(typed)))
       THEN /\ dialog' = "Missing Input"
            /\ UNCHANGED <<process_state, process_command, confirm_state,
                           blog_state, debate_state, debate_command, record_state,
                           action_frame_shown, guided_buttons_gridded,
                           questions_shown, question_widgets, loading_active,
                           workers>>
       ELSE /\ Dispatch(Worker("thought"))
            /\ dialog' = ""
            /\ UNCHANGED <<process_command, debate_command,
                           action_frame_shown, guided_buttons_gridded,
                           questions_shown, question_widgets>>
    /\ UNCHANGED <<sessionVars, speechVars, after_queue>>
    /\ Frame

\* generate_blog_post_threaded without the check of line 600
generate_blog_post_unchecked ==
    /\ blog_state = NORMAL
    /\ action_frame_shown
    /\ guided_buttons_gridded
    /\ IF FALSE
       THEN /\ dialog' = "No History"
            /\ UNCHANGED <<widgetVars, workers>>
       ELSE /\ Dispatch(Worker("blog"))
            /\ dialog' = ""
            /\ UNCHANGED <<input_text, process_command, debate_command,
                           action_frame_shown, guided_buttons_gridded,
                           questions_shown, question_widgets>>
    /\ UNCHANGED <<sessionVars, speechVars, after_queue>>
    /\ Frame

\* the Blog button
generate_blog_post_threaded ==
    /\ blog_state = NORMAL
    /\ action_frame_shown
    /\ guided_buttons_gridded
    /\ IF conversation_history = <<>>
          /\ (LET last_thought == IF Truthy(current_step_data)
                                  THEN GetText(current_step_data, "") ELSE ""
              IN last_thought = "")
       THEN /\ dialog' = "No History"
            /\ UNCHANGED <<widgetVars, workers>>
       ELSE /\ Dispatch(Worker("blog"))
            /\ dialog' = ""
            /\ UNCHANGED <<input_text, process_command, debate_command,
                           action_frame_shown, guided_buttons_gridded,
                           questions_shown, question_widgets>>
    /\ UNCHANGED <<sessionVars, speechVars, after_queue>>
    /\ Frame

(***************************************************************************)
(* Debate mode                                                             *)
(***************************************************************************)
\* debate turns the model follows
MaxTurns == 3

\* start_debate_mode without lines 385-386: Confirm and Blog stay in the action frame
start_debate_mode_keeps_buttons ==
    /\ debate_state = NORMAL
    /\ action_frame_shown
    /\ debate_command = "start_debate_mode"
    /\ LET initial_argument == IF Truthy(current_step_data)
                                THEN GetText(current_step_data, "") ELSE ""
       IN IF initial_argument = "" \/ initial_argument = "N/A"
          THEN /\ dialog' = "No Argument"
               /\ UNCHANGED <<sessionVars, widgetVars, workers>>
          ELSE /\ is_debating' = TRUE
               /\ debate_history' = <<Turn("user", initial_argument)>>
               /\ process_command' = "send_rebuttal_threaded"
               /\ questions_shown' = FALSE
               /\ guided_buttons_gridded' = guided_buttons_gridded
               /\ debate_command' = "end_debate"
               \* the seed turn is already in debate_history: the input is
               \* not read, the buttons are disabled and the worker started
               /\ Dispatch(Worker("debate"))
               /\ input_text' = ""
               /\ dialog' = ""
               /\ UNCHANGED <<selected_question, current_step_data,
                              conversation_history, current_step,
                              action_frame_shown, question_widgets>>
    /\ UNCHANGED <<speechVars, after_queue>>
    /\ Frame

\* the Debate button while it reads "Start Debate Mode":
\* set_gui_mode('DEBATE'), the seed turn, then send_rebuttal_threaded()
start_debate_mode ==
    /\ debate_state = NORMAL
    /\ action_frame_shown
    /\ debate_command = "start_debate_mode"
    /\ LET initial_argument == IF Truthy(current_step_data)
                                THEN GetText(current_step_data, "") ELSE ""
       IN IF initial_argument = "" \/ initial_argument = "N/A"
          THEN /\ dialog' = "No Argument"
               /\ UNCHANGED <<sessionVars, widgetVars, workers>>
          ELSE /\ is_debating' = TRUE
               /\ debate_history' = <<Turn("user", initial_argument)>>
               /\ process_command' = "send_rebuttal_threaded"
               /\ questions_shown' = FALSE
               /\ guided_buttons_gridded' = FALSE
               /\ debate_command' = "end_debate"
               \* the seed turn is already in debate_history: the input is
               \* not read, the buttons are disabled and the worker started
               /\ Dispatch(Worker("debate"))
               /\ input_text' = ""
               /\ dialog' = ""
               /\ UNCHANGED <<selected_question, current_step_data,
                              conversation_history, current_step,
                              action_frame_shown, question_widgets>>
    /\ UNCHANGED <<speechVars, after_queue>>
    /\ Frame

\* end_debate without line 697: the confirmed steps survive the debate
end_debate_keeps_history ==
    /\ debate_state = NORMAL
    /\ action_frame_shown
    /\ debate_command = "end_debate"
    /\ is_debating' = FALSE
    /\ process_command' = "process_input_threaded"
    /\ debate_command' = "start_debate_mode"
    /\ questions_shown' = TRUE
    /\ action_frame_shown' = TRUE
    \* create_question_cards([])
    /\ question_widgets' = <<>>
    /\ selected_question' = None
    /\ confirm_state' = DISABLED
    \* lines 695-698
    /\ debate_history' = <<>>
    /\ current_step' = 1
    /\ conversation_history' = conversation_history
    /\ current_step_data' = PyNone
    /\ input_text' = NewThoughtPlaceholder
    /\ loading_active' = FALSE
    /\ process_state' = NORMAL
    /\ debate_state' = DISABLED
    /\ dialog' = ""
    /\ UNCHANGED <<blog_state, record_state, guided_buttons_gridded, speechVars,
                   threadVars>>
    /\ Frame

\* the Debate button while it reads "End Debate": set_gui_mode('GUIDED') and reset
end_debate ==
    /\ debate_state = NORMAL
    /\ action_frame_shown
    /\ debate_command = "end_debate"
    /\ is_debating' = FALSE
    /\ process_command' = "process_input_threaded"
    /\ debate_command' = "start_debate_mode"
    /\ questions_shown' = TRUE
    /\ action_frame_shown' = TRUE
    \* create_question_cards([])
    /\ question_widgets' = <<>>
    /\ selected_question' = None
    /\ confirm_state' = DISABLED
    \* lines 695-698
    /\ debate_history' = <<>>
    /\ current_step' = 1
    /\ conversation_history' = <<>>
    /\ current_step_data' = PyNone
    /\ input_text' = NewThoughtPlaceholder
    /\ loading_active' = FALSE
    /\ process_state' = NORMAL
    /\ debate_state' = DISABLED
    /\ dialog' = ""
    /\ UNCHANGED <<blog_state, record_state, guided_buttons_gridded, speechVars,
                   threadVars>>
    /\ Frame

\* a check for the empty text only: the placeholder passes
rebuttal_rejects_empty_only(user_rebuttal) ==
    Len(debate_history) > 1 /\ user_rebuttal = ""

\* line 715: a later turn without a new text
rebuttal_rejects(user_rebuttal) ==
    Len(debate_history) > 1 /\ (user_rebuttal = "" \/ user_rebuttal = CounterPlaceholder)

\* the Process button, in debate mode ("Send Rebuttal")
send_rebuttal_threaded(typed) ==
    /\ process_state = NORMAL
    /\ process_command = "send_rebuttal_threaded"
    /\ IF rebuttal_rejects(Strip(Edited(typed)))
       THEN /\ dialog' = "Missing Rebuttal"
            /\ input_text' = Edited(typed)
            /\ UNCHANGED <<debate_history, process_state, process_command,
                           confirm_state, blog_state, debate_state, debate_command,
                           record_state, action_frame_shown, guided_buttons_gridded,
                           questions_shown, question_widgets, loading_active,
                           workers>>
       ELSE /\ Len(debate_history) < MaxTurns
            /\ debate_history' = IF Len(debate_history) > 1
                                 THEN Append(debate_history,
                                             Turn("user", Strip(Edited(typed))))
                                 ELSE debate_history
            /\ Dispatch(Worker("debate"))
            /\ input_text' = ""
            /\ dialog' = ""
            /\ UNCHANGED <<process_command, debate_command, action_frame_shown,
                           guided_buttons_gridded, questions_shown,
                           question_widgets>>
    /\ UNCHANGED <<selected_question, current_step_data, conversation_history,
                   current_step, is_debating, speechVars, after_queue>>
    /\ Frame

(***************************************************************************)
(* Worker threads                                                          *)
(***************************************************************************)
WorkerFrame ==
    /\ dialog' = ""
    /\ UNCHANGED <<widgetVars, speechVars>>
    /\ Frame

\* _run_thought_processing: the provider call, then one master.after(0, ...)
run_thought_processing(w) ==
    /\ w.kind = "thought"
    /\ \E r \in StructuredOutcomes(API_KEY) :
          after_queue' = Append(after_queue,
              IF r.tag = "return" /\ Truthy(r.val)
              THEN Callback("_update_guided_result", r.val, FALSE)
              ELSE Callback("_handle_error", PyNone, FALSE))
    /\ workers' = Ended(w)
    /\ UNCHANGED sessionVars
    /\ WorkerFrame

\* _run_debate_turn up to line 738: debate_history is read and sent, the reply (or
\* the text that stands for a failure) is held; an IndexError ends the thread
run_debate_turn_call(w) ==
    /\ w.kind = "debate"
    /\ w.pc = "call"
    /\ \E r \in DebateOutcomes(API_KEY) :
          IF r.tag = "raise" /\ r.exc # "ValueError"
          THEN workers' = Ended(w)
          ELSE workers' = Ended(w) (+) SetToBag({
                   [kind |-> "debate", pc |-> "append",
                    text |-> IF r.tag = "raise" THEN ConfigFailText
                             ELSE IF ~Truthy(r.val) THEN RetryFailText
                             ELSE r.val.str]})
    /\ UNCHANGED <<sessionVars, after_queue>>
    /\ WorkerFrame

\* the reply put in front: self.debate_history.insert(0, ...)
debate_turn_insert_first(w) ==
    debate_history' = <<Turn("assistant", w.text)>> \o debate_history

\* lines 740-742, still on the worker thread
debate_turn_append(w) ==
    debate_history' = Append(debate_history, Turn("assistant", w.text))

run_debate_turn_append(w) ==
    /\ w.kind = "debate"
    /\ w.pc = "append"
    /\ debate_turn_append(w)
    /\ after_queue' = Append(after_queue,
           Callback("_update_debate_ui", PyNone, w.text = ConfigFailText))
    /\ workers' = Ended(w)
    /\ UNCHANGED <<selected_question, current_step_data, conversation_history,
                   current_step, is_debating>>
    /\ WorkerFrame

\* the two lines written for one history entry (lines 613-614)
StepBlock(item) ==
    [kind |-> "step", step |-> item.step, thought |-> item.thought,
     focus_question |-> item.focus_question]
\* the line written for the pending result (line 619)
FinalBlock(step, final_thought) ==
    [kind |-> "final", step |-> step, thought |-> final_thought,
     focus_question |-> ""]

\* the final block written for every pending result, 'N/A' included
conversation_text_any_pending ==
    [i \in 1..Len(conversation_history) |-> StepBlock(conversation_history[i])]
    \o (IF Truthy(current_step_data)
        THEN <<FinalBlock(current_step, GetText(current_step_data, "N/A"))>>
        ELSE <<>>)

\* lines 611-619: the transcript compiled from the session, as its blocks in order
conversation_text ==
    [i \in 1..Len(conversation_history) |-> StepBlock(conversation_history[i])]
    \o (LET final_thought == IF Truthy(current_step_data)
                             THEN GetText(current_step_data, "N/A") ELSE ""
        IN IF final_thought # "" /\ final_thought # "N/A"
           THEN <<FinalBlock(current_step, final_thought)>>
           ELSE <<>>)

\* _run_blog_post_generation: the history is read and compiled on the worker
\* thread, and sent as one user turn in one call (line 622)
run_blog_post_generation(w) ==
    /\ w.kind = "blog"
    /\ LET history == <<Turn("user", conversation_text)>>
       IN \E r \in DebateOutcomes(API_KEY) :
          IF r.tag = "raise" /\ r.exc # "ValueError"
          THEN after_queue' = after_queue
          ELSE after_queue' = Append(after_queue,
                   Callback("_show_blog_post_window", PyNone, r.tag = "raise"))
    /\ workers' = Ended(w)
    /\ UNCHANGED sessionVars
    /\ WorkerFrame

(***************************************************************************)
(* Callbacks run by the control thread (master.after(0, ...)), in order    *)
(***************************************************************************)
\* set_buttons_state(tk.NORMAL)
AllButtonsNormal ==
    /\ process_state' = NORMAL
    /\ confirm_state' = NORMAL
    /\ debate_state' = NORMAL
    /\ record_state' = NORMAL

\* line 819
store_result(result) == current_step_data' = result

\* _update_guided_result whose new cards leave the selection as it was
update_guided_result_keeps_selection ==
    /\ after_queue # <<>>
    /\ Head(after_queue).fn = "_update_guided_result"
    /\ after_queue' = Tail(after_queue)
    /\ store_result(Head(after_queue).val)
    /\ input_text' = ResponsePlaceholder
    /\ loading_active' = FALSE
    \* create_question_cards(challenge_questions)
    /\ question_widgets' = GetQuestions(Head(after_queue).val)
    /\ selected_question' = selected_question
    /\ action_frame_shown' = TRUE
    /\ questions_shown' = TRUE
    \* set_buttons_state(tk.NORMAL) and lines 831-834
    /\ AllButtonsNormal
    /\ blog_state' = IF conversation_history # <<>> THEN NORMAL ELSE DISABLED
    /\ dialog' = ""
    /\ UNCHANGED <<process_command, debate_command, guided_buttons_gridded>>
    /\ UNCHANGED <<conversation_history, current_step, is_debating, debate_history,
                   speechVars, workers>>
    /\ Frame

update_guided_result ==
    /\ after_queue # <<>>
    /\ Head(after_queue).fn = "_update_guided_result"
    /\ after_queue' = Tail(after_queue)
    /\ store_result(Head(after_queue).val)
    /\ input_text' = ResponsePlaceholder
    /\ loading_active' = FALSE
    \* create_question_cards(challenge_questions)
    /\ question_widgets' = GetQuestions(Head(after_queue).val)
    /\ selected_question' = None
    /\ action_frame_shown' = TRUE
    /\ questions_shown' = TRUE
    \* set_buttons_state(tk.NORMAL) and lines 831-834
    /\ AllButtonsNormal
    /\ blog_state' = IF conversation_history # <<>> THEN NORMAL ELSE DISABLED
    /\ dialog' = ""
    /\ UNCHANGED <<process_command, debate_command, guided_buttons_gridded>>
    /\ UNCHANGED <<conversation_history, current_step, is_debating, debate_history,
                   speechVars, workers>>
    /\ Frame

\* an error handler that also drops the pending result
handle_error_drops_pending ==
    /\ after_queue # <<>>
    /\ Head(after_queue).fn = "_handle_error"
    /\ after_queue' = Tail(after_queue)
    /\ loading_active' = FALSE
    /\ AllButtonsNormal
    /\ blog_state' = NORMAL
    /\ dialog' = "Processing Error"
    /\ current_step_data' = PyNone
    /\ selected_question' = None
    /\ UNCHANGED <<conversation_history, current_step, is_debating, debate_history,
                   input_text, process_command, debate_command,
                   action_frame_shown, guided_buttons_gridded, questions_shown,
                   question_widgets, speechVars, workers>>
    /\ Frame

handle_error ==
    /\ after_queue # <<>>
    /\ Head(after_queue).fn = "_handle_error"
    /\ after_queue' = Tail(after_queue)
    /\ loading_active' = FALSE
    /\ AllButtonsNormal
    /\ blog_state' = NORMAL
    /\ dialog' = "Processing Error"
    /\ UNCHANGED <<sessionVars, input_text, process_command, debate_command,
                   action_frame_shown, guided_buttons_gridded, questions_shown,
                   question_widgets, speechVars, workers>>
    /\ Frame

update_debate_ui ==
    /\ after_queue # <<>>
    /\ Head(after_queue).fn = "_update_debate_ui"
    /\ after_queue' = Tail(after_queue)
    /\ loading_active' = FALSE
    /\ input_text' = CounterPlaceholder
    /\ AllButtonsNormal
    /\ blog_state' = NORMAL
    /\ debate_command' = "end_debate"
    /\ dialog' = IF Head(after_queue).api_error THEN "API Error" ELSE ""
    /\ UNCHANGED <<sessionVars, process_command, action_frame_shown,
                   guided_buttons_gridded, questions_shown, question_widgets,
                   speechVars, workers>>
    /\ Frame

\* _show_blog_post_window that also drops the pending result
show_blog_post_window_drops_pending ==
    /\ after_queue # <<>>
    /\ Head(after_queue).fn = "_show_blog_post_window"
    /\ after_queue' = Tail(after_queue)
    /\ loading_active' = FALSE
    /\ AllButtonsNormal
    /\ blog_state' = NORMAL
    /\ dialog' = IF Head(after_queue).api_error THEN "API Error" ELSE ""
    /\ current_step_data' = PyNone
    /\ UNCHANGED <<selected_question, conversation_history, current_step,
                   is_debating, debate_history, input_text, process_command, debate_command,
                   action_frame_shown, guided_buttons_gridded, questions_shown,
                   question_widgets, speechVars, workers>>
    /\ Frame

show_blog_post_window ==
    /\ after_queue # <<>>
    /\ Head(after_queue).fn = "_show_blog_post_window"
    /\ after_queue' = Tail(after_queue)
    /\ loading_active' = FALSE
    /\ AllButtonsNormal
    /\ blog_state' = NORMAL
    /\ dialog' = IF Head(after_queue).api_error THEN "API Error" ELSE ""
    /\ UNCHANGED <<sessionVars, input_text, process_command, debate_command,
                   action_frame_shown, guided_buttons_gridded, questions_shown,
                   question_widgets, speechVars, workers>>
    /\ Frame

(***************************************************************************)
(* The application                                                         *)
(***************************************************************************)
Next ==
    \/ record_input_toggle
    \/ \E st \in Recognised : speech_callback(st)
    \/ process_transcription_from_queue
    \/ \E q \in {"q1", "q2", "q3"} : select_question(q)
    \/ confirm_focus
    \/ \E typed \in TypedTexts \cup {Untouched} : process_input_threaded(typed)
    \/ generate_blog_post_threaded
    \/ start_debate_mode
    \/ end_debate
    \/ \E typed \in TypedTexts \cup {Untouched} : send_rebuttal_threaded(typed)
    \/ \E w \in BagToSet(workers) : run_thought_processing(w)
    \/ \E w \in BagToSet(workers) : run_debate_turn_call(w)
    \/ \E w \in BagToSet(workers) : run_debate_turn_append(w)
    \/ \E w \in BagToSet(workers) : run_blog_post_generation(w)
    \/ update_guided_result
    \/ handle_error
    \/ update_debate_ui
    \/ show_blog_post_window

Spec == Init /\ [][Next]_vars

\* Scheduling: a started thread runs on (threading.Thread(...).start()), the Tk
\* main loop runs the callbacks handed to master.after(0, ...) in turn, and a
\* drain scheduled by master.after(100, ...) runs when its timer expires
WorkerStep ==
    \E w \in BagToSet(workers) :
        \/ run_thought_processing(w)
        \/ run_debate_turn_call(w)
        \/ run_debate_turn_append(w)
        \/ run_blog_post_generation(w)
EventLoopStep ==
    \/ update_guided_result
    \/ handle_error
    \/ update_debate_ui
    \/ show_blog_post_window
Fairness ==
    /\ WF_vars(WorkerStep)
    /\ WF_vars(EventLoopStep)
    /\ WF_vars(process_transcription_from_queue)

\* the application under fair scheduling of the threads and of the event loop;
\* the user is under no obligation to click or to speak
FairSpec == Spec /\ Fairness

(***************************************************************************)
(* SpeechSpec: dictation with every status, and the thoughts it submits    *)
(***************************************************************************)
SpeechNext ==
    \/ record_input_toggle
    \/ \E st \in SpeechStatuses : speech_callback(st)
    \/ process_transcription_from_queue
    \/ \E typed \in TypedTexts \cup {Untouched} : process_input_threaded(typed)
    \/ \E w \in BagToSet(workers) : run_thought_processing(w)
    \/ update_guided_result
    \/ handle_error

SpeechSpec == Init /\ [][SpeechNext]_vars

\* dictation under fair scheduling
FairSpeechSpec == SpeechSpec /\ Fairness

(***************************************************************************)
(* Properties of the application (Spec)                                    *)
(***************************************************************************)

\* C1: in every reachable state without a pending result (current_step_data is
\* None), current_step equals len(conversation_history) + 1.
C1_StepCountsHistory ==
    current_step_data = PyNone => current_step = Len(conversation_history) + 1

\* C1, its case: two steps were confirmed and no result is pending
C1_TwoStepsConfirmed ==
    /\ current_step_data = PyNone
    /\ Len(conversation_history) = 2
    /\ current_step = 3

\* C2: at most one background request (thought processing, debate turn, summary)
\* is in flight at any time: dispatched and not yet completed on the control thread.
C2_AtMostOneInFlight == InFlight <= 1

\* C3: debate_history, when not empty, begins with a user turn and consecutive
\* turns have different roles (user, assistant, user, ...).
C3_RolesAlternate ==
    \A i \in 1..Len(debate_history) :
        debate_history[i].role = IF i % 2 = 1 THEN "user" ELSE "assistant"

\* C4: a result that arrives after its operation was abandoned is discarded: the
\* step of a debate turn whose debate has been ended since its dispatch (the mode
\* is GUIDED again when its reply comes) changes no field of the session.
C4_LateResultDiscarded ==
    [][(/\ ~is_debating
        /\ \E w \in BagToSet(workers) :
              /\ w.kind = "debate"
              /\ w.pc = "append"
              /\ workers' = Ended(w))
       => UNCHANGED sessionVars]_vars

\* C5: the session state is written by steps of the control thread only: a step
\* of a worker thread (a thread ends, or goes on to its next statement; the
\* control thread only ever starts threads) changes no field of the session.
C5_OnlyControlThreadWrites ==
    [][(/\ workers' # workers
        /\ BagCardinality(workers') <= BagCardinality(workers))
       => UNCHANGED sessionVars]_vars

\* C6: confirm_focus without a selected question or without a pending result
\* fails with the warning and changes nothing: the step that shows the warning
\* leaves history, current_step, pending and selection as they were, and no step
\* extends the history from a state that lacks the selection or the pending result.
C6_IncompleteConfirmChangesNothing ==
    [][/\ dialog' = "Incomplete Data"
          => UNCHANGED <<conversation_history, current_step, current_step_data,
                         selected_question>>
       /\ Len(conversation_history') > Len(conversation_history)
          => (selected_question # None /\ current_step_data # PyNone)]_vars

\* C6, its case: Confirm was clicked with a pending result and no selection, and
\* the warning is shown
C6_WarnedWithoutSelection ==
    /\ dialog = "Incomplete Data"
    /\ selected_question = None
    /\ current_step_data # PyNone

\* C7: a successful confirm_focus with pending P, selection q and current_step n
\* appends exactly the entry {step n, P.corrected_text, q} to the history, sets
\* current_step to n + 1 and leaves pending and selection absent; the earlier
\* entries are unchanged.
C7_ConfirmAppendsPendingText ==
    [][Len(conversation_history') > Len(conversation_history)
       => /\ conversation_history' =
                Append(conversation_history,
                       [step |-> current_step,
                        thought |-> current_step_data.corrected_text,
                        focus_question |-> selected_question])
          /\ current_step' = current_step + 1
          /\ current_step_data' = PyNone
          /\ selected_question' = None]_vars

(***************************************************************************)
(* Properties of one provider call (ClientSpec)                            *)
(***************************************************************************)
\* the requests of a trace, and its sleeps, in order
RECURSIVE Select(_, _)
Select(trace, e) ==
    IF trace = <<>> THEN <<>>
    ELSE IF Head(trace).e = e THEN <<Head(trace).n>> \o Select(Tail(trace), e)
    ELSE Select(Tail(trace), e)

\* an attempt that did not succeed, in the words of the specification: transport
\* error, non-success status, empty payload, or a payload that does not parse
AttemptFailed(kind, o) ==
    IF kind = "structured" THEN o \notin PayloadNames
    ELSE o \in {"transport", "status", "shape", "notext"}

\* C8: a call returns null if and only if all 5 attempts failed; as soon as one
\* attempt succeeds the call returns its result, with no further request or wait.
C8_NullIffAllAttemptsFailed ==
    (cl_result.tag = "return") =>
        LET made == Len(Select(cl_result.trace, "request"))
        IN /\ (cl_result.val = PyNone) <=>
                  (/\ made = max_retries
                   /\ \A k \in 1..max_retries : AttemptFailed(cl_kind, cl_outs[k]))
           /\ \A k \in 1..max_retries :
                  (/\ ~AttemptFailed(cl_kind, cl_outs[k])
                   /\ \A j \in 1..(k - 1) : AttemptFailed(cl_kind, cl_outs[j]))
                  => /\ made = k
                     /\ cl_result.trace[Len(cl_result.trace)] = Request(k - 1)
                     /\ cl_result.val # PyNone

\* C9: in the structured call an attempt whose response has no text, or an empty
\* one, is a failed attempt: while fewer than 5 attempts were made a wait and a
\* further attempt follow it, and null is not returned before the fifth attempt.
C9_EmptyPayloadIsRetried ==
    (cl_kind = "structured" /\ cl_result.tag = "return") =>
        LET reqs == Select(cl_result.trace, "request")
            sleeps == Select(cl_result.trace, "sleep")
        IN \A k \in 1..Len(reqs) :
               (cl_outs[k] = "notext" /\ k < max_retries)
               => (Len(sleeps) >= k /\ Len(reqs) >= k + 1)

\* the waits of a call whose attempts all fail
Waits == <<1, 2, 4, 8, 16>>

\* C10, as the specification states it: at most 5 requests, the wait after failed
\* attempt k is 2^k (1, 2, 4, 8, 16), and each wait lies between two attempts.
C10_EachWaitBetweenTwoAttempts ==
    LET trace == cl_result.trace
    IN /\ Len(Select(trace, "request")) <= max_retries
       /\ \A p \in 1..Len(trace) :
              trace[p].e = "sleep" =>
                  /\ p > 1 /\ trace[p - 1].e = "request"
                  /\ trace[p].n = Waits[trace[p - 1].n + 1]
                  /\ p < Len(trace) /\ trace[p + 1].e = "request"

\* C10, amended: at most 5 requests; a wait is made only right after an attempt
\* that raised an error the loop catches, and the wait after attempt k is 2^k; the
\* waits of a call whose five attempts all raise are 1, 2, 4, 8, 16 in that order;
\* a wait after one of the first four attempts is followed by the next attempt,
\* the wait after the fifth attempt is followed by the return of null.
C10_BackoffAfterEachCaughtError ==
    LET trace == cl_result.trace
        retried == IF cl_kind = "structured" THEN Caught \cup {"badjson"} ELSE Caught
    IN /\ Len(Select(trace, "request")) <= max_retries
       /\ \A p \in 1..Len(trace) :
              trace[p].e = "sleep" =>
                  /\ p > 1 /\ trace[p - 1].e = "request"
                  /\ cl_outs[trace[p - 1].n + 1] \in retried
                  /\ trace[p].n = Waits[trace[p - 1].n + 1]
                  /\ IF trace[p - 1].n < max_retries - 1
                     THEN p < Len(trace) /\ trace[p + 1] = Request(trace[p - 1].n + 1)
                     ELSE p = Len(trace) /\ cl_result = Returned(PyNone, trace)
       /\ (cl_result.tag # "notcalled" /\ API_KEY # ""
           /\ \A k \in 1..max_retries : cl_outs[k] \in retried)
          => Select(trace, "sleep") = Waits

\* C10, its case: all five attempts raised, five requests and five waits were made
C10_FiveAttemptsAllRaised ==
    /\ cl_result.tag = "return"
    /\ Len(Select(cl_result.trace, "request")) = 5
    /\ Len(Select(cl_result.trace, "sleep")) = 5

\* C11: a pending result, whenever present, carries exactly three challenge
\* questions: a payload with fewer or more is never stored as pending.
C11_PendingHasThreeQuestions ==
    current_step_data # PyNone => Len(GetQuestions(current_step_data)) = 3

\* C12: whatever the provider answers to an attempt, a call does not raise: it
\* ends with a result, with null, or with the configuration error raised at once
\* when the key is absent.
C12_CallNeverRaises ==
    cl_result.tag = "raise" => (API_KEY = "" /\ cl_result.exc = "ValueError")

\* C13: without an API key both calls fail at once with the configuration error:
\* no request is issued, no wait is made, nothing is retried.
C13_NoKeyFailsAtOnce ==
    (API_KEY = "" /\ cl_result # NotCalled) =>
        /\ cl_result.tag = "raise"
        /\ cl_result.exc = "ValueError"
        /\ cl_result.trace = <<>>

\* C13, its case: a call was made without a key, against a provider that would
\* have answered the first attempt
C13_CalledWithoutKey ==
    /\ API_KEY = ""
    /\ cl_result # NotCalled
    /\ cl_outs[1] = "ok"

(***************************************************************************)
(* Properties of the operations of the application (Spec)                  *)
(***************************************************************************)

\* C14: submitting a thought whose text is empty or is one of the placeholders
\* is rejected before any worker is started: the step that shows the warning
\* starts no thread, hands over no callback and changes no field of the session,
\* and no thought worker is ever started for such a text.
C14_EmptyThoughtRejected ==
    [][/\ dialog' = "Missing Input"
          => UNCHANGED <<sessionVars, workers, after_queue>>
       /\ CopiesIn(Worker("thought"), workers') > CopiesIn(Worker("thought"), workers)
          => /\ Strip(input_text') # ""
             /\ Strip(input_text') \notin {NewThoughtPlaceholder, ResponsePlaceholder,
                                          CounterPlaceholder}
             /\ UNCHANGED sessionVars]_vars

\* C14, its case: Process was clicked on the response placeholder and the
\* warning is shown
C14_PlaceholderRejected ==
    /\ dialog = "Missing Input"
    /\ input_text = ResponsePlaceholder

\* C15: a thought whose call ends with null or with the configuration error leaves
\* the session as it was: neither its dispatch, nor its worker, nor the report of
\* the failure changes pending, selection, history, step, mode or debate turns.
C15_FailedThoughtChangesNothing ==
    [][(\/ dialog' = "Processing Error"
        \/ CopiesIn(Worker("thought"), workers') # CopiesIn(Worker("thought"), workers))
       => UNCHANGED sessionVars]_vars

\* C15, its case: the failure of a thought was reported while an earlier pending
\* result and a confirmed step were held
C15_FailureReportedWithPending ==
    /\ dialog = "Processing Error"
    /\ current_step_data # PyNone
    /\ conversation_history # <<>>

\* C16: a successful start of the debate with pending corrected text X switches
\* the mode to DEBATE, sets the debate turns to exactly [user X] and starts one
\* debate worker, whatever the input text holds; and the step that brings the
\* reply R to the turns [user X] makes them exactly [user X, assistant R].
C16_DebateSeededThenAnswered ==
    [][/\ (~is_debating /\ is_debating')
          => /\ current_step_data.corrected_text \notin {Missing, ""}
             /\ debate_history' = <<Turn("user", current_step_data.corrected_text)>>
             /\ workers' = Started(Worker("debate"))
             /\ after_queue' = after_queue
       /\ (is_debating /\ is_debating' /\ Len(debate_history) = 1
           /\ debate_history' # debate_history)
          => \E w \in BagToSet(workers) :
                 /\ w.kind = "debate"
                 /\ w.pc = "append"
                 /\ workers' = Ended(w)
                 /\ debate_history' = <<debate_history[1], Turn("assistant", w.text)>>]_vars

\* C16, its case: the debate was started on X and the provider's reply R was added
C16_SeedAnswered ==
    /\ is_debating
    /\ debate_history = <<Turn("user", "X"), Turn("assistant", "R")>>

\* C17: starting the debate without a pending result but with a confirmed step
\* succeeds, seeded with the text of the last confirmed step; it fails with the
\* warning only when neither a pending text nor a confirmed step's text is there.
C17_DebateFallsBackOnHistory ==
    [][dialog' = "No Argument"
       => /\ conversation_history = <<>>
          /\ current_step_data.corrected_text \in {Missing, ""}]_vars

\* C18: when the chat call of a debate turn returns nothing after its retries,
\* no assistant turn is appended: the debate turns stay as they were when the
\* request was dispatched.
C18_FailedTurnAppendsNothing ==
    [][\A w \in BagToSet(workers) :
          (/\ w.kind = "debate" /\ w.pc = "append" /\ w.text = RetryFailText
           /\ workers' = Ended(w))
          => debate_history' = debate_history]_vars

\* C19: ending the debate, from any debate state, leaves guided mode with no
\* debate turns, no confirmed steps, step 1, no pending result and no selection.
C19_EndDebateResetsSession ==
    [][(is_debating /\ ~is_debating')
       => /\ debate_history' = <<>>
          /\ conversation_history' = <<>>
          /\ current_step' = 1
          /\ current_step_data' = PyNone
          /\ selected_question' = None
          /\ process_command' = "process_input_threaded"
          /\ debate_command' = "start_debate_mode"]_vars

\* C19 witness: a debate has been ended (its removal of the Confirm button is
\* still in effect) and the session is back at its start.
C19_DebateEnded ==
    /\ ~is_debating
    /\ ~guided_buttons_gridded
    /\ input_text = NewThoughtPlaceholder
    /\ conversation_history = <<>>
    /\ current_step_data = PyNone

C21_NoPendingInDebate ==
    is_debating => current_step_data = PyNone

\* C22: whenever the session is in guided mode there are no debate turns, also
\* when a debate turn completes after the debate was ended.
C22_NoTurnsInGuidedMode ==
    ~is_debating => debate_history = <<>>

\* C23: a summary requested with no confirmed step and no pending corrected text
\* is refused with a warning before any worker is started: nothing is sent and the
\* session state is unchanged; a summary worker is started only when there is
\* a confirmed step or a pending corrected text.
C23_EmptySummaryRejected ==
    [][/\ dialog' = "No History"
          => /\ conversation_history = <<>>
             /\ current_step_data.corrected_text \in {Missing, ""}
             /\ UNCHANGED <<sessionVars, workers, after_queue>>
       /\ CopiesIn(Worker("blog"), workers') > CopiesIn(Worker("blog"), workers)
          => /\ \/ conversation_history # <<>>
                \/ current_step_data.corrected_text \notin {Missing, ""}
             /\ UNCHANGED sessionVars]_vars

\* C23 witness: the warning has been shown, with nothing in flight.
C23_SummaryRefused ==
    /\ dialog = "No History"
    /\ conversation_history = <<>>
    /\ InFlight = 0

\* C24: the summary prompt a worker compiles holds one block per confirmed step,
\* in ascending step order, with that step's text and question, followed by one
\* final-thought block numbered Len(history) + 1 exactly when the pending result
\* has a corrected text that is not a placeholder.
C24_PromptFollowsSession ==
    CopiesIn(Worker("blog"), workers) > 0 =>
        LET n == Len(conversation_history)
            has_final == current_step_data.corrected_text \notin {Missing, "", "N/A"}
        IN /\ Len(conversation_text) = n + (IF has_final THEN 1 ELSE 0)
           /\ \A i \in 1..n :
                 conversation_text[i] =
                     [kind |-> "step", step |-> i,
                      thought |-> conversation_history[i].thought,
                      focus_question |-> conversation_history[i].focus_question]
           /\ has_final =>
                 conversation_text[n + 1] =
                     [kind |-> "final", step |-> n + 1,
                      thought |-> current_step_data.corrected_text,
                      focus_question |-> ""]

\* C24 witness: a summary worker is about to compile a session with two confirmed
\* steps and a pending corrected text.
C24_SummaryOfTwoStepsAndPending ==
    /\ CopiesIn(Worker("blog"), workers) > 0
    /\ Len(conversation_history) = 2
    /\ current_step_data.corrected_text = "X"

\* C25: a summary request changes no session state: neither its dispatch, nor
\* the worker's call whatever its outcome, nor the callback that shows the result
\* changes the confirmed steps, the step number, the pending result, the selected
\* question, the mode or the debate turns.
C25_SummaryChangesNothing ==
    [][(\/ CopiesIn(Worker("blog"), workers') # CopiesIn(Worker("blog"), workers)
        \/ /\ after_queue # <<>>
           /\ Head(after_queue).fn = "_show_blog_post_window"
           /\ after_queue' = Tail(after_queue))
       => UNCHANGED sessionVars]_vars

\* C25 witness: the worker of a summary request has ended and its callback is
\* next on the control thread, in a session that holds a confirmed step, a
\* pending result and a selected question.
C25_SummaryDoneWithPending ==
    /\ after_queue # <<>>
    /\ Head(after_queue).fn = "_show_blog_post_window"
    /\ conversation_history # <<>>
    /\ current_step_data # PyNone
    /\ selected_question # None

\* C26: the history is append-only: every step either leaves it as it is, or
\* extends it by one entry at its end (a confirmation, which also advances the
\* step number), or empties it when the debate is ended.
C26_HistoryAppendOnly ==
    [][\/ conversation_history' = conversation_history
       \/ /\ Len(conversation_history') = Len(conversation_history) + 1
          /\ SubSeq(conversation_history', 1, Len(conversation_history))
                = conversation_history
          /\ current_step' = current_step + 1
          /\ ~is_debating
       \/ /\ conversation_history' = <<>>
          /\ is_debating /\ ~is_debating']_vars

\* C26 witness: two steps were appended and the debate entered since; both are
\* still there, in the order they were confirmed.
C26_TwoStepsKeptInDebate ==
    /\ is_debating
    /\ Len(conversation_history) = 2
    /\ debate_history # <<>>

\* C27: the step numbers stored in the history are positive and strictly
\* increasing: the i-th entry has step i.
C27_StepNumbersCountUp ==
    \A i \in 1..Len(conversation_history) : conversation_history[i].step = i

\* C27 witness: two confirmed steps, numbered 1 and 2, and a third under way.
C27_StepsOneAndTwo ==
    /\ Len(conversation_history) = 2
    /\ conversation_history[1].step = 1
    /\ conversation_history[2].step = 2
    /\ current_step_data # PyNone
    /\ ~is_debating

C29_RebuttalNeedsText ==
    [][/\ dialog' = "Missing Rebuttal"
          => /\ Len(debate_history) > 1
             /\ Strip(input_text') \in {"", CounterPlaceholder}
             /\ UNCHANGED <<sessionVars, workers, after_queue>>
       /\ (/\ is_debating
           /\ Len(debate_history) > 1
           /\ CopiesIn(Worker("debate"), workers') > CopiesIn(Worker("debate"), workers))
          => /\ \E t \in {Strip(Typed), Strip(input_text)} :
                   /\ t \notin {"", CounterPlaceholder}
                   /\ debate_history' = Append(debate_history, Turn("user", t))
             /\ workers' = Started(Worker("debate"))
             /\ after_queue' = after_queue]_vars

\* C29 witness: after the first reply a rebuttal with the typed text was sent
\* (its request is in flight), and before that the placeholder was refused.
C29_RebuttalSent ==
    /\ is_debating
    /\ debate_history = <<Turn("user", "X"), Turn("assistant", "R"),
                          Turn("user", Strip(Typed))>>
    /\ CopiesIn(Worker("debate"), workers) = 1
    /\ after_queue = <<>>

\* C30: within one recording session (from one start of recording to the next)
\* at most one transcription result is delivered to the control thread and put
\* in the input text. The input text is "T" only after a transcript was put
\* there, and starting a recording empties it: a transcript delivered while the
\* input text is "T" is a second one since recording was last started.
C30_OneResultPerRecording ==
    [][(/\ audio_queue # <<>>
        /\ Head(audio_queue) = "SUCCESS"
        /\ audio_queue' = Tail(audio_queue))
       => input_text # "T"]_vars

\* C31: whenever a focus question is selected there is a pending result and the
\* selected question is one of its challenge questions; a new result or the end
\* of a debate never leaves a selection made against an older pending result.
C31_SelectionBelongsToPending ==
    selected_question # None
    => /\ current_step_data # PyNone
       /\ \E i \in 1..Len(GetQuestions(current_step_data)) :
             GetQuestions(current_step_data)[i] = selected_question

\* C31 witness: the result of the second step replaced the cards of the first,
\* and one of its three questions is selected.
C31_SelectedOnSecondResult ==
    /\ selected_question = "q3"
    /\ Len(conversation_history) = 1
    /\ GetQuestions(current_step_data) = ThreeQuestions

\* C32: under fair scheduling every dispatched request eventually completes and
\* the loading state and the disabled controls set at dispatch are eventually
\* cleared, whatever the provider call gave: the loading animation, once
\* started, is eventually stopped.
C32_LoadingEventuallyCleared ==
    loading_active ~> ~loading_active

====
